---- MODULE Spec2Model ----
(***************************************************************************)
(* cosmic-comp, src/debug.rs: fps_ui, the FPS / frame-timing debug overlay. *)
(*                                                                         *)
(* fps_ui reads the aggregates of the frame-timing store (crate::state::Fps),*)
(* turns the most recent samples into four series of bars and hands a      *)
(* drawing closure to the egui backend (fps.state.render), whose Result it  *)
(* returns.                                                                *)
(*                                                                         *)
(* Durations are counted in ticks of 1/TicksPerSec second.  An f64 is      *)
(* modelled as an exact rational, +inf, -inf or NaN, with the IEEE rules   *)
(* for division by zero: rounding errors of f64 arithmetic are left out    *)
(* (they can move a value that lies next to a half, such as 127.5, to the  *)
(* other side of it; with the durations recorded here they do not).        *)
(* Rust's float-to-integer `as` casts saturate and send NaN to 0; usize    *)
(* arithmetic wraps modulo 2^64, as in a build without overflow checks.    *)
(***************************************************************************)
EXTENDS Integers, Sequences, FiniteSets, TLC

VARIABLES
    frames,   \* fps.frames: the recorded Frame samples, oldest first
    uiTime,   \* fps.state: the time the egui state was last advanced to
    call,     \* the latest fps_ui call of the current frame, or NoCall
    sample,   \* the normalisation on its own: the inputs drawn
    norm      \* the normalisation on its own: the values computed

vars == <<frames, uiTime, call, sample, norm>>

---------------------------------------------------------------------------
(* Bounds of the model *)

MaxFrames == 3

TicksPerSec == 100

MaxTicks == 5

(* Program constants *)

Scale == 255

U8Max == 255

ELEMENTS_COLOR == "rgb(70,198,115)"

RENDER_COLOR == "rgb(29,114,58)"

SCREENCOPY_COLOR == "rgb(253,178,39)"

DISPLAY_COLOR == "rgb(41,184,209)"

PLOT_MAX_Y == 300

NoCall == [kind |-> "none"]

None == [some |-> FALSE, ticks |-> 0]

Some(t) == [some |-> TRUE, ticks |-> t]

---------------------------------------------------------------------------
(* f64 values *)

RECURSIVE Gcd(_, _)
Gcd(a, b) == IF b = 0 THEN a ELSE Gcd(b, a % b)

Abs(x) == IF x < 0 THEN -x ELSE x

NaN == [k |-> "nan", n |-> 0, d |-> 1]

Inf(s) == [k |-> "inf", n |-> s, d |-> 1]

\* the finite value n / d, d > 0, not necessarily in lowest terms
Ratio(n, d) == [k |-> "fin", n |-> n, d |-> d]

\* the finite value n / d, d # 0, in lowest terms
Fin(n, d) ==
    LET g == Gcd(Abs(n), Abs(d))
        s == IF d < 0 THEN -1 ELSE 1
    IN  Ratio(s * (n \div g), s * (d \div g))

IsFin(a) == a.k = "fin"

\* equality and order of finite values
FEq(a, b) == a.n * b.d = b.n * a.d

FLe(a, b) == a.n * b.d <= b.n * a.d

FSub(a, b) ==
    IF a.d = b.d THEN Ratio(a.n - b.n, a.d)
    ELSE Fin(a.n * b.d - b.n * a.d, a.d * b.d)

FDiv(a, b) ==
    IF ~IsFin(a) \/ ~IsFin(b) THEN NaN
    ELSE IF b.n = 0
         THEN IF a.n = 0 THEN NaN ELSE Inf(IF a.n > 0 THEN 1 ELSE -1)
         ELSE Fin(a.n * b.d, a.d * b.n)

FMul(a, c) ==
    CASE a.k = "nan" -> NaN
      [] a.k = "inf" -> Inf(IF c >= 0 THEN a.n ELSE -a.n)
      [] OTHER -> Ratio(a.n * c, a.d)

\* f64::round: to the nearest integer, halves away from zero
FRound(a) ==
    IF ~IsFin(a) THEN a
    ELSE LET m == (2 * Abs(a.n) + a.d) \div (2 * a.d)
         IN  Ratio(IF a.n < 0 THEN -m ELSE m, 1)

\* truncation toward zero of a finite value
Trunc(a) == LET m == Abs(a.n) \div a.d IN IF a.n < 0 THEN -m ELSE m

\* `x as u8`: saturating, NaN to 0
AsU8(a) ==
    CASE a.k = "nan" -> 0
      [] a.k = "inf" -> IF a.n > 0 THEN U8Max ELSE 0
      [] OTHER -> IF Trunc(a) < 0 THEN 0
                  ELSE IF Trunc(a) > U8Max THEN U8Max ELSE Trunc(a)

\* A usize is [big |-> FALSE, n |-> v] for the value v, and
\* [big |-> TRUE, n |-> v] for the value 2^64 - 1 - v.
Usize(v) == [big |-> FALSE, n |-> v]

UsizeMax == [big |-> TRUE, n |-> 0]

\* `x as usize`: saturating, NaN to 0
AsUsize(a) ==
    CASE a.k = "nan" -> Usize(0)
      [] a.k = "inf" -> IF a.n > 0 THEN UsizeMax ELSE Usize(0)
      [] OTHER -> IF Trunc(a) < 0 THEN Usize(0) ELSE Usize(Trunc(a))

\* usize * 2, modulo 2^64: (2^64 - 1 - v) * 2 = 2^64 - 1 - (2v + 1)
Times2(u) == IF u.big THEN [big |-> TRUE, n |-> 2 * u.n + 1] ELSE Usize(2 * u.n)

\* Duration::as_secs_f64
AsSecsF64(ticks) == Ratio(ticks, TicksPerSec)

---------------------------------------------------------------------------
(* The frame-timing store, crate::state::Fps.  Its methods are not part of *)
(* debug.rs; they follow the store's specification: aggregates over all    *)
(* retained frames, zero when no frame was recorded.                       *)

Frame(e, r, s, d) ==
    [duration_elements |-> e, duration_render |-> r,
     duration_screencopy |-> s, duration_displayed |-> d]

\* a frame with nothing but its time to display, of 1, 2 or 3 ticks
Idle(d) == Frame(0, 0, None, d)

\* frames of 2 and of 3 ticks of work
Light == Frame(2, 0, None, 2)

Busy == Frame(2, 1, Some(2), 1)

\* a frame that took four seconds to prepare
Stalled == Frame(4 * TicksPerSec, 0, Some(0), 3)

FrameInputs == {Idle(1), Idle(2), Idle(3), Light, Busy, Stalled}

Range(s) == {s[i] : i \in 1..Len(s)}

SetMax(S) == CHOOSE x \in S : \A y \in S : y <= x

SetMin(S) == CHOOSE x \in S : \A y \in S : x <= y

RECURSIVE SeqSum(_)
SeqSum(s) == IF s = <<>> THEN 0 ELSE Head(s) + SeqSum(Tail(s))

frame_time(f) == f.duration_elements + f.duration_render

FrameTimes(fr) == [i \in 1..Len(fr) |-> frame_time(fr[i])]

max_frametime(fr) == IF fr = <<>> THEN 0 ELSE SetMax(Range(FrameTimes(fr)))

min_frametime(fr) == IF fr = <<>> THEN 0 ELSE SetMin(Range(FrameTimes(fr)))

\* in seconds
avg_frametime(fr) ==
    IF fr = <<>> THEN AsSecsF64(0)
    ELSE Ratio(SeqSum(FrameTimes(fr)), Len(fr) * TicksPerSec)

\* 1 / avg_frametime; 0.0 when no frame was recorded
avg_fps(fr) ==
    IF fr = <<>> THEN Ratio(0, 1) ELSE FDiv(Ratio(1, 1), avg_frametime(fr))

max_time_to_display(fr) ==
    IF fr = <<>> THEN 0
    ELSE SetMax({fr[i].duration_displayed : i \in 1..Len(fr)})

min_time_to_display(fr) ==
    IF fr = <<>> THEN 0
    ELSE SetMin({fr[i].duration_displayed : i \in 1..Len(fr)})

---------------------------------------------------------------------------
(* fps_ui *)

\* lines 34-43: the aggregates read, whatever state.egui.active is
AggregatesRead ==
    {"max_frametime", "min_frametime", "avg_frametime", "avg_fps",
     "max_time_to_display", "min_time_to_display"}

Aggregates(fr) ==
    [max |-> AsSecsF64(max_frametime(fr)),
     min |-> AsSecsF64(min_frametime(fr)),
     avg |-> avg_frametime(fr),
     avg_fps |-> avg_fps(fr),
     max_disp |-> AsSecsF64(max_time_to_display(fr)),
     min_disp |-> AsSecsF64(min_time_to_display(fr))]

\* line 45: avg_fps.round() as usize * 2
Amount(fps) == Times2(AsUsize(FRound(fps)))

RECURSIVE Rev(_)
Rev(s) == IF s = <<>> THEN <<>> ELSE Append(Rev(Tail(s)), Head(s))

Min2(a, b) == IF a <= b THEN a ELSE b

\* Iterator::take with a usize count
Take(s, u) == IF u.big THEN s ELSE SubSeq(s, 1, Min2(u.n, Len(s)))

\* Iterator::enumerate: positions from 0
RECURSIVE EnumerateFrom(_, _)
EnumerateFrom(s, i) ==
    IF s = <<>> THEN <<>>
    ELSE <<[i |-> i, frame |-> Head(s)]>> \o EnumerateFrom(Tail(s), i + 1)

Enumerate(s) == EnumerateFrom(s, 0)

\* the final rev() left out
RecentReversed(fr, amount) == Enumerate(Take(Rev(fr), amount))

\* lines 49-55: frames.iter().rev().take(amount).rev().enumerate()
Recent(fr, amount) == Enumerate(Rev(Take(Rev(fr), amount)))

\* the scaled value cut to an integer, not rounded
NormalizedTruncating(val, min_disp, max_disp) ==
    LET a == FMul(FDiv(FSub(val, min_disp), FSub(max_disp, min_disp)), Scale)
    IN  IF IsFin(a) THEN Ratio(Trunc(a), 1) ELSE a

\* scaled by 256
NormalizedBy256(val, min_disp, max_disp) ==
    FRound(FMul(FDiv(FSub(val, min_disp), FSub(max_disp, min_disp)), Scale + 1))

\* measured from max_disp down
NormalizedInverted(val, min_disp, max_disp) ==
    FRound(FMul(FDiv(FSub(max_disp, val), FSub(max_disp, min_disp)), Scale))

\* lines 66-73, before the cast: ((val - min_disp) / (max_disp - min_disp) * 255.0).round()
Normalized(val, min_disp, max_disp) ==
    FRound(FMul(FDiv(FSub(val, min_disp), FSub(max_disp, min_disp)), Scale))

\* a cast that wraps modulo 256 instead of saturating
TransformedWrapping(val, min_disp, max_disp) ==
    LET a == Normalized(val, min_disp, max_disp)
    IN  IF IsFin(a) THEN Trunc(a) % (U8Max + 1) ELSE 0

\* lines 66-73: ... as u8
Transformed(val, min_disp, max_disp) == AsU8(Normalized(val, min_disp, max_disp))

\* lines 59-63: the screencopy duration, 0.0 when absent
ScreencopyVal(f) ==
    IF f.duration_screencopy.some
    THEN AsSecsF64(f.duration_screencopy.ticks) ELSE Ratio(0, TicksPerSec)

\* Bar::new(x, value).fill(color)
Bar(x, value, color) == [x |-> x, value |-> value, fill |-> color]

\* lines 56-84: the closure of map, for the sample at position i
BarsOf(i, frame, min_disp, max_disp) ==
    [elements |->
        Bar(i, Transformed(AsSecsF64(frame.duration_elements), min_disp, max_disp),
            ELEMENTS_COLOR),
     render |->
        Bar(i, Transformed(AsSecsF64(frame.duration_render), min_disp, max_disp),
            RENDER_COLOR),
     screencopy |->
        Bar(i, Transformed(ScreencopyVal(frame), min_disp, max_disp),
            SCREENCOPY_COLOR),
     displayed |->
        Bar(i, Transformed(AsSecsF64(frame.duration_displayed), min_disp, max_disp),
            DISPLAY_COLOR)]

\* lines 56-85: map and unzip, the four series with one bar per fetched sample
RECURSIVE Bars(_, _)
Bars(fetched, agg) ==
    IF fetched = <<>>
    THEN [elements |-> <<>>, render |-> <<>>, screencopy |-> <<>>, displayed |-> <<>>]
    ELSE LET b == BarsOf(Head(fetched).i, Head(fetched).frame, agg.min_disp, agg.max_disp)
             rest == Bars(Tail(fetched), agg)
         IN  [elements |-> <<b.elements>> \o rest.elements,
              render |-> <<b.render>> \o rest.render,
              screencopy |-> <<b.screencopy>> \o rest.screencopy,
              displayed |-> <<b.displayed>> \o rest.displayed]

NoGpu == [some |-> FALSE, minor |-> 0]

GpuInputs == {NoGpu, [some |-> TRUE, minor |-> 128]}

\* line 96: option_env!("GIT_HASH"), here of a build without it
GIT_HASH == [some |-> FALSE, text |-> ""]

\* lines 88-141: what the closure draws
Draw(active, gpu, agg, bars, amount) ==
    <<[w |-> "label", text |-> "cosmic-comp version"]>>
    \o (IF GIT_HASH.some THEN <<[w |-> "label", text |-> GIT_HASH.text]>> ELSE <<>>)
    \o (IF ~active
        THEN <<[w |-> "label", text |-> "Press Super+Escape for debug menu"]>>
        ELSE <<[w |-> "separator"]>>
             \o (IF gpu.some THEN <<[w |-> "label", text |-> "renderD", minor |-> gpu.minor]>>
                 ELSE <<>>)
             \o <<[w |-> "heading", text |-> "FPS", value |-> agg.avg_fps],
                  [w |-> "label", text |-> "Frame Times:"],
                  [w |-> "label", text |-> "avg", value |-> agg.avg],
                  [w |-> "label", text |-> "min", value |-> agg.min],
                  [w |-> "label", text |-> "max", value |-> agg.max],
                  [w |-> "plot",
                   \* bottom to top, each stacked on those before it; a chart
                   \* shows the series of its name
                   charts |-> <<"elements", "render", "screencopy", "displayed">>,
                   shown |-> <<Len(bars.elements), Len(bars.render),
                               Len(bars.screencopy), Len(bars.displayed)>>,
                   include_x |-> <<Usize(0), amount>>,
                   include_y |-> <<0, PLOT_MAX_Y>>]>>)

Gles2Errors == {"FramebufferBindingError", "ContextActivationError"}

\* what fps.state.render can answer: Ok(texture) or Err(Gles2Error)
BackendOutcomes == {[ok |-> TRUE, err |-> "none", texture |-> "texture"]}
                   \cup {[ok |-> FALSE, err |-> e, texture |-> "none"] : e \in Gles2Errors}

\* a caller that renders again after a failure and reports success
RenderRetrying(outcome) ==
    [invocations |-> IF outcome.ok THEN 1 ELSE 2,
     ret |-> [ok |-> TRUE, err |-> "none", texture |-> "texture"]]

\* lines 87-148: fps.state.render(...) is the tail expression of fps_ui:
\* called once, its Result returned as it is
Render(outcome) == [invocations |-> 1, ret |-> outcome]

\* a fetch that removes what it takes
FramesAfterDrain(fr, amount) == SubSeq(fr, 1, Len(fr) - Len(Take(Rev(fr), amount)))

\* lines 49-51: fps.frames.iter() borrows the frames
FramesAfterFpsUi(fr, amount) == fr

\* state.clock.now(): one tick per recorded frame
Now == Len(frames)

NoSample == [min_disp |-> 0, max_disp |-> 0, a |-> 0, b |-> 0]

NoNorm == [done |-> FALSE]

Init ==
    /\ frames = <<>>
    /\ uiTime = 0
    /\ call = NoCall
    /\ sample = NoSample
    /\ norm = NoNorm

\* Fps: one Frame appended per rendered frame
Record(f) ==
    /\ Len(frames) < MaxFrames
    /\ frames' = Append(frames, f)
    /\ call' = NoCall
    /\ UNCHANGED <<uiTime, sample, norm>>

FpsUi ==
    LET agg == Aggregates(frames)
        amount == Amount(agg.avg_fps)
        fetched == Recent(frames, amount)
        bars == Bars(fetched, agg)
    IN  \E gpu \in GpuInputs, active \in BOOLEAN, outcome \in BackendOutcomes :
          LET ui == Draw(active, gpu, agg, bars, amount)
              r == Render(outcome)
          IN  /\ call' = [kind |-> "fps_ui", active |-> active,
                          reads |-> AggregatesRead, amount |-> amount,
                          fetched |-> fetched, bars |-> bars, ui |-> ui,
                          outcome |-> outcome,
                          invocations |-> r.invocations, ret |-> r.ret]
              /\ frames' = FramesAfterFpsUi(frames, amount)
              /\ uiTime' = Now
              /\ UNCHANGED <<sample, norm>>

Next ==
    \/ \E f \in FrameInputs : Record(f)
    \/ FpsUi

Spec == Init /\ [][Next]_vars

---------------------------------------------------------------------------
(* The normalisation of lines 66-73 on its own: the inputs are drawn when  *)
(* it starts, one step applies the computation to them.                    *)

SampleInputs ==
    {[min_disp |-> lo, max_disp |-> hi, a |-> a, b |-> b] :
        lo \in 0..MaxTicks, hi \in 0..MaxTicks, a \in 0..MaxTicks, b \in 0..MaxTicks}

InitNorm ==
    /\ frames = <<>>
    /\ uiTime = 0
    /\ call = NoCall
    /\ sample \in {i \in SampleInputs : i.min_disp <= i.max_disp}
    /\ norm = NoNorm

Normalize ==
    /\ ~norm.done
    /\ norm' = [done |-> TRUE,
                rounded_a |-> Normalized(AsSecsF64(sample.a), AsSecsF64(sample.min_disp),
                                         AsSecsF64(sample.max_disp)),
                a |-> Transformed(AsSecsF64(sample.a), AsSecsF64(sample.min_disp),
                                  AsSecsF64(sample.max_disp)),
                b |-> Transformed(AsSecsF64(sample.b), AsSecsF64(sample.min_disp),
                                  AsSecsF64(sample.max_disp))]
    /\ UNCHANGED <<frames, uiTime, call, sample>>

NextNorm == Normalize

SpecNorm == InitNorm /\ [][NextNorm]_vars

---------------------------------------------------------------------------
(* Properties *)

Called == call # NoCall

Series == {"elements", "render", "screencopy", "displayed"}

\* the duration, in ticks, a series shows of a frame
TicksOf(series, f) ==
    CASE series = "elements" -> f.duration_elements
      [] series = "render" -> f.duration_render
      [] series = "screencopy" ->
            IF f.duration_screencopy.some THEN f.duration_screencopy.ticks ELSE 0
      [] OTHER -> f.duration_displayed

Clamp(x, lo, hi) == IF x < lo THEN lo ELSE IF x > hi THEN hi ELSE x

\* round(p / q) for q > 0, halves away from zero
RoundDiv(p, q) ==
    IF p >= 0 THEN (2 * p + q) \div (2 * q) ELSE -((2 * (-p) + q) \div (2 * q))

Degenerate == max_time_to_display(frames) = min_time_to_display(frames)

\* C1: the samples fps_ui fetches are the last min(amount, len) frames, oldest
\* first, at positions 0..k-1; the last one is the frame recorded last.
C1_RecentSamples ==
    Called =>
        LET k == Len(call.fetched)
            len == Len(frames)
        IN  /\ k = (IF call.amount.big THEN len ELSE Min2(call.amount.n, len))
            /\ \A j \in 1..k :
                  /\ call.fetched[j].i = j - 1
                  /\ call.fetched[j].frame = frames[len - k + j]
            /\ (k > 0 => call.fetched[k].frame = frames[len])

\* fewer samples fetched than recorded, and more than one
C1_Witness ==
    /\ Called
    /\ ~call.amount.big
    /\ Len(call.fetched) = 2
    /\ Len(frames) = 3
    /\ frames[2] # frames[3]

\* C2: with max_disp = min_disp every bar of every sample has one and the same
\* fallback value.
C2_FixedFallback ==
    (Called /\ frames # <<>> /\ Degenerate) =>
        \E c \in 0..U8Max :
            \A s \in Series : \A j \in 1..Len(call.bars[s]) : call.bars[s][j].value = c

\* C3: called with state.egui.active false, fps_ui reads no aggregate (the hint
\* label shows none), fetches no sample and builds no bar.
C3_InactiveSkipsChart ==
    (Called /\ ~call.active) =>
        /\ call.reads = {}
        /\ call.fetched = <<>>
        /\ \A s \in Series : call.bars[s] = <<>>

\* C4: with max_disp > min_disp, a value within [min_disp, max_disp] is
\* normalised to an integer within [0, 255], which the cast keeps.
C4_InRange ==
    (/\ norm.done
     /\ sample.min_disp < sample.max_disp
     /\ sample.min_disp <= sample.a
     /\ sample.a <= sample.max_disp) =>
        /\ IsFin(norm.rounded_a)
        /\ norm.rounded_a.d = 1
        /\ norm.rounded_a.n \in 0..255
        /\ norm.a = norm.rounded_a.n

\* both ends of the range: the largest value of a range gives 255
C4_Witness ==
    /\ norm.done
    /\ sample.min_disp < sample.max_disp
    /\ sample.a = sample.max_disp
    /\ sample.min_disp > 0
    /\ norm.a = 255

\* C5: with max_disp > min_disp, of two values within [min_disp, max_disp] the
\* smaller is normalised to no more than the larger.
C5_Monotonic ==
    (/\ norm.done
     /\ sample.min_disp <= sample.a
     /\ sample.a < sample.b
     /\ sample.b <= sample.max_disp) =>
        norm.a <= norm.b

C5_Witness ==
    /\ norm.done
    /\ sample.min_disp < sample.a
    /\ sample.a < sample.b
    /\ sample.b < sample.max_disp
    /\ norm.a < norm.b

\* C6: amount is twice the rounded avg_fps, and with no frame recorded it is 0
\* and the four series are empty.
C6_AmountFormula ==
    Called =>
        LET fps == avg_fps(frames)
        IN  /\ IsFin(fps)
            /\ ~call.amount.big
            /\ call.amount.n = 2 * RoundDiv(fps.n, fps.d)
            /\ (frames = <<>> =>
                  /\ call.amount.n = 0
                  /\ \A s \in Series : call.bars[s] = <<>>)

\* C7: a call of fps_ui calls the backend's render once and returns what it
\* answered: the same error, or the texture.
C7_RenderOnce ==
    Called =>
        /\ call.invocations = 1
        /\ call.ret = call.outcome

C7_Witness ==
    /\ Called
    /\ ~call.ret.ok
    /\ call.ret.err = "ContextActivationError"
    /\ call.invocations = 1

\* C8: a call of fps_ui, whatever the backend answers, leaves the frames and
\* every aggregate of the store as they were.
C8_StoreUntouched ==
    [][call' # NoCall =>
          /\ frames' = frames
          /\ Aggregates(frames') = Aggregates(frames)]_vars

\* a failed call that fetched some of the frames of a store, after which the
\* egui state is at the time of the call
C8_Witness ==
    /\ Called
    /\ ~call.ret.ok
    /\ Len(frames) = 3
    /\ Len(call.fetched) = 2
    /\ uiTime = 3

\* the value of a bar by the formula alone, where the division is defined
FormulaValue(ticks) ==
    RoundDiv(Scale * (ticks - min_time_to_display(frames)),
             max_time_to_display(frames) - min_time_to_display(frames))

\* the value of a bar: the formula's, brought into 0..255; with
\* max_disp = min_disp, 255 for a value above it and 0 otherwise
SaturatedValue(ticks) ==
    IF Degenerate
    THEN IF ticks > min_time_to_display(frames) THEN U8Max ELSE 0
    ELSE Clamp(FormulaValue(ticks), 0, U8Max)

\* the four series have one bar per fetched sample, at x = its position
SeriesShape ==
    \A s \in Series :
        /\ Len(call.bars[s]) = Len(call.fetched)
        /\ \A j \in 1..Len(call.fetched) : call.bars[s][j].x = j - 1

Scenario == <<Idle(1), Idle(2), Idle(3)>>

\* C9 as stated: every bar has the value of round((v - min_disp) /
\* (max_disp - min_disp) * 255) wherever max_disp > min_disp.
C9_BarsByFormula ==
    (Called /\ ~Degenerate) =>
        /\ SeriesShape
        /\ \A s \in Series : \A j \in 1..Len(call.fetched) :
              call.bars[s][j].value = FormulaValue(TicksOf(s, call.fetched[j].frame))

\* C9, amended: four series of equal length, one bar per fetched sample at
\* x = its position, each bar's value the formula's saturated to 0..255 (and,
\* with max_disp = min_disp, 255 above min_disp and 0 otherwise); of frames
\* displayed after 10, 20 and 30 ms and otherwise 0, the second displayed bar
\* is 128.
C9_BarsSaturated ==
    Called =>
        /\ SeriesShape
        /\ \A s \in Series : \A j \in 1..Len(call.fetched) :
              call.bars[s][j].value = SaturatedValue(TicksOf(s, call.fetched[j].frame))
        /\ (frames = Scenario => call.bars["displayed"][2].value = 128)

C9_Witness ==
    /\ Called
    /\ frames = Scenario
    /\ Len(call.bars["displayed"]) = 3
    /\ call.bars["displayed"][2].value = 128
    /\ call.bars["elements"][2].value = 0

\* C10: every bar value is an integer of 0..255; a value below min_disp gives 0
\* and a value above max_disp gives 255.
C10_ByteRange ==
    Called =>
        \A s \in Series : \A j \in 1..Len(call.bars[s]) :
            LET t == TicksOf(s, call.fetched[j].frame)
                v == call.bars[s][j].value
            IN  /\ v \in 0..U8Max
                /\ (t < min_time_to_display(frames) => v = 0)
                /\ (t > max_time_to_display(frames) => v = U8Max)

\* one call with a bar of a value below min_disp and one of a value above
\* max_disp, max_disp > min_disp
C10_Witness ==
    /\ Called
    /\ ~Degenerate
    /\ \E j \in 1..Len(call.fetched) :
          /\ call.fetched[j].frame.duration_elements > max_time_to_display(frames)
          /\ call.bars["elements"][j].value = U8Max
    /\ \E j \in 1..Len(call.fetched) :
          /\ call.fetched[j].frame.duration_elements < min_time_to_display(frames)
          /\ call.bars["elements"][j].value = 0

====
